---- MODULE Spec2Model ----
(***************************************************************************)
(* The r/PESU subreddit bot: a scheduler job polls the newest posts of the *)
(* subreddit, asks the AskPESU backend about each post inside the time     *)
(* window and replies with the answer when it is worth posting.            *)
(*                                                                         *)
(* Two variants of the program live in the repository:                     *)
(*   "app"  app/app.py + app/reddit.py  (quota negotiation, FastAPI)       *)
(*   "src"  src/main.py + src/reddit.py (plain ask, blocking scheduler)    *)
(* Time is counted in minutes, the unit of `interval`.                     *)
(***************************************************************************)
EXTENDS Integers, Sequences, FiniteSets, TLC

VARIABLES
    variant,        \* which of the two programs runs
    now,            \* wall clock (minutes since process startup)
    next_run_time,  \* the job's next scheduled run time
    missed,         \* runs the scheduler skipped (instance limit reached)
    platform,       \* the subreddit: post id -> [created_utc, replies]
    pc,             \* per job instance: "idle", "fetch", "loop"
    cutoff,         \* per job instance: cutoff computed by fetch_latest_posts
    new_posts,      \* per job instance: list returned by fetch_latest_posts
    queried,        \* per job instance: post ids passed to query_ask_pesu
    replied,        \* per job instance: post ids on which post.reply was called
    errors,         \* per job instance: post ids whose processing raised
    last,           \* per job instance: details of the latest loop iteration
    outcome         \* per job instance: how the latest invocation of run ended

vars == <<variant, now, next_run_time, missed, platform, pc, cutoff, new_posts,
          queried, replied, errors, last, outcome>>

(***************************************************************************)
(* Bounds of the model.                                                    *)
(***************************************************************************)
N == 2            \* config "n": posts fetched per cycle
Interval == 1     \* config "interval": minutes
MaxTime == 2      \* the clock stops here
MaxPosts == 3     \* posts ever created on the subreddit
NumSlots == 2     \* worker threads of the scheduler's executor

Slots == 1..NumSlots

Min(a, b) == IF a <= b THEN a ELSE b

(***************************************************************************)
(* Program constants.                                                      *)
(***************************************************************************)
Sentinel == "I'm sorry, I don't have that information."

Footer == "\n\n---\n*I am a bot, and this action was performed automatically.*"

Prefix == "Use the following context to answer the question below in detail. If the context is irrelevant, do not answer the query.\n\n"

\* faulty variant: two instances of the job may run at a time
MaxInstances_two == 1 + 1

\* add_job is called without max_instances: the scheduler's default, one
\* running instance per job, applies.
MaxInstances == 1

(***************************************************************************)
(* The platform.  Posts are numbered in creation order, so the listing     *)
(* "new" (newest first) is the reverse of the id order.                    *)
(***************************************************************************)
Submission(id) == [id |-> id, created_utc |-> platform[id].created_utc]

Reverse(s) == [k \in 1..Len(s) |-> s[Len(s) + 1 - k]]

\* subreddit.new(limit): the `limit` newest posts, newest first
subreddit_new(limit) ==
    LET all == Reverse([id \in 1..Len(platform) |-> Submission(id)])
    IN  SubSeq(all, 1, Min(limit, Len(all)))

\* Posts carry fixed texts; only their surrounding whitespace matters here.
PostTitle(id) == IF id % 2 = 1 THEN "Hostel fees?" ELSE " Placements "

PostSelftext(id) == IF id % 3 = 1 THEN "" ELSE "How are they?\n"

IsSpace(c) == c \in {" ", "\n", "\t"}

RECURSIVE LStrip(_)
LStrip(s) ==
    IF Len(s) > 0 /\ IsSpace(SubSeq(s, 1, 1)) THEN LStrip(SubSeq(s, 2, Len(s))) ELSE s

RECURSIVE RStrip(_)
RStrip(s) ==
    IF Len(s) > 0 /\ IsSpace(SubSeq(s, Len(s), Len(s)))
    THEN RStrip(SubSeq(s, 1, Len(s) - 1)) ELSE s

\* str.strip()
Strip(s) == RStrip(LStrip(s))

\* query = f"{post.title}\n\n{post.selftext or ''}".strip()
BaseQuery(id) == Strip(PostTitle(id) \o "\n\n" \o PostSelftext(id))

(***************************************************************************)
(* fetch_latest_posts.                                                     *)
(***************************************************************************)
RECURSIVE FetchLoop(_, _, _, _, _)
FetchLoop(listing, k, cut, n, acc) ==
    IF k > Len(listing) THEN acc
    ELSE IF listing[k].created_utc >= cut
         THEN LET acc2 == Append(acc, listing[k])
              IN  IF Len(acc2) >= n THEN acc2
                  ELSE FetchLoop(listing, k + 1, cut, n, acc2)
         ELSE FetchLoop(listing, k + 1, cut, n, acc)

RECURSIVE FetchLoopStrict(_, _, _, _, _)
FetchLoopStrict(listing, k, cut, n, acc) ==
    IF k > Len(listing) THEN acc
    ELSE IF listing[k].created_utc > cut
         THEN LET acc2 == Append(acc, listing[k])
              IN  IF Len(acc2) >= n THEN acc2
                  ELSE FetchLoopStrict(listing, k + 1, cut, n, acc2)
         ELSE FetchLoopStrict(listing, k + 1, cut, n, acc)

RECURSIVE FetchLoopOffByOne(_, _, _, _, _)
FetchLoopOffByOne(listing, k, cut, n, acc) ==
    IF k > Len(listing) THEN acc
    ELSE IF listing[k].created_utc >= cut
         THEN LET acc2 == Append(acc, listing[k])
              IN  IF Len(acc2) > n THEN acc2
                  ELSE FetchLoopOffByOne(listing, k + 1, cut, n, acc2)
         ELSE FetchLoopOffByOne(listing, k + 1, cut, n, acc)

\* faulty variant: the boundary post (created exactly at the cutoff) is dropped
fetch_latest_posts_strict(current_time, interval, n) ==
    LET cut == current_time - interval
    IN  [cutoff |-> cut, posts |-> FetchLoopStrict(subreddit_new(n), 1, cut, n, <<>>)]

\* faulty variant: posts that already carry a reply are left out
fetch_latest_posts_unanswered(current_time, interval, n) ==
    LET cut == current_time - interval
        fresh == SelectSeq(subreddit_new(n), LAMBDA p : platform[p.id].replies = 0)
    IN  [cutoff |-> cut, posts |-> FetchLoop(fresh, 1, cut, n, <<>>)]

\* faulty variant: the listing is not limited and the loop breaks one post late
fetch_latest_posts_unbounded(current_time, interval, n) ==
    LET cut == current_time - interval
    IN  [cutoff |-> cut,
         posts |-> FetchLoopOffByOne(subreddit_new(Len(platform)), 1, cut, n, <<>>)]

fetch_latest_posts(current_time, interval, n) ==
    LET cut == current_time - interval
    IN  [cutoff |-> cut, posts |-> FetchLoop(subreddit_new(n), 1, cut, n, <<>>)]

(***************************************************************************)
(* The network: what the AskPESU backend may answer to one request.        *)
(***************************************************************************)
NearSentinel == "I'm sorry, I don't have that information"

Good == "PESU has two campuses."

\* JSON bodies of /ask: "status" and "answer" may each be missing
Responses ==
    {[status |-> TRUE, answer |-> a] : a \in {"", Sentinel, NearSentinel, Good}}
    \cup {[status |-> FALSE, answer |-> a] : a \in {Sentinel, Good}}
    \cup {[status |-> TRUE], [status |-> FALSE], [answer |-> Good]}

\* kind "error": the request failed in transport; "notjson": the body does not
\* parse as JSON; "nokey": JSON without the "quota" object; "json": as expected
QuotaReplies ==
    {[kind |-> "error", code |-> 0, thinking |-> FALSE, primary |-> FALSE],
     [kind |-> "notjson", code |-> 503, thinking |-> FALSE, primary |-> FALSE],
     [kind |-> "nokey", code |-> 503, thinking |-> FALSE, primary |-> FALSE],
     [kind |-> "json", code |-> 503, thinking |-> TRUE, primary |-> TRUE]}
    \cup {[kind |-> "json", code |-> 200, thinking |-> t, primary |-> p] :
            t \in BOOLEAN, p \in BOOLEAN}

AskReplies ==
    {[kind |-> "error", code |-> 0, body |-> <<>>],
     [kind |-> "notjson", code |-> 200, body |-> <<>>],
     [kind |-> "notjson", code |-> 502, body |-> <<>>],
     [kind |-> "json", code |-> 500, body |-> <<[status |-> FALSE]>>]}
    \cup {[kind |-> "json", code |-> 200, body |-> <<r>>] : r \in Responses}

\* Placeholders for a request the program does not send.
QuotaUnsent == [kind |-> "unsent", code |-> 0, thinking |-> FALSE, primary |-> FALSE]

AskUnsent == [kind |-> "unsent", code |-> 0, body |-> <<>>]

\* The backend answers only the requests that reach it: the src program sends
\* no quota request, the app program sends no ask request unless the quota
\* reply names an available mode.
QuotaRepliesFor(v, quotas) == IF v = "app" THEN quotas ELSE {QuotaUnsent}

AskRepliesFor(v, quota, asks) ==
    IF v = "src" \/ (quota.kind = "json" /\ (quota.thinking \/ quota.primary))
    THEN asks ELSE {AskUnsent}

\* What the backend does in the runs of the whole system: it answers, or the
\* ask request fails in transport.
FewQuotaReplies ==
    {[kind |-> "json", code |-> 200, thinking |-> TRUE, primary |-> TRUE]}

FewAskReplies ==
    {[kind |-> "error", code |-> 0, body |-> <<>>],
     [kind |-> "json", code |-> 200, body |-> <<[status |-> TRUE, answer |-> Good]>>]}

(***************************************************************************)
(* Exceptions.  Every kind below derives from Exception; the first two     *)
(* derive from httpx.HTTPError.                                            *)
(***************************************************************************)
Exceptions ==
    {"TransportError", "HTTPStatusError", "JSONDecodeError", "KeyError",
     "RedditAPIException", "PrawcoreException"}

\* faulty variant: only transport errors are caught, a bad status is not
IsHTTPError_transport(exc) == exc = "TransportError"

\* except httpx.HTTPError
IsHTTPError(exc) == exc \in {"TransportError", "HTTPStatusError"}

\* faulty variant: the per-post handler catches HTTP errors only
CaughtByRun_http(exc) == IsHTTPError(exc)

\* faulty variant: the per-post handler catches the Reddit client's errors only
CaughtByRun_praw(exc) == exc \in {"RedditAPIException", "PrawcoreException"}

\* except Exception
CaughtByRun(exc) == exc \in Exceptions

Failure == [status |-> FALSE]

\* response.raise_for_status()
raise_for_status(code) == IF code \in 200..299 THEN "none" ELSE "HTTPStatusError"

\* One HTTP exchange as the client sees it.
Exchange(req, json, reply) == [req |-> req, json |-> json, reply |-> reply]

\* client.post(f"{base_url}/ask", json=...); raise_for_status(); json()
AskStep(before, json, ask) ==
    LET exch == Append(before, Exchange("POST /ask", <<json>>, ask))
    IN  IF ask.kind = "error"
        THEN [exchanges |-> exch, raised |-> "TransportError", value |-> <<>>]
        ELSE IF raise_for_status(ask.code) # "none"
        THEN [exchanges |-> exch, raised |-> raise_for_status(ask.code), value |-> <<>>]
        ELSE IF ask.kind = "notjson"
        THEN [exchanges |-> exch, raised |-> "JSONDecodeError", value |-> <<>>]
        ELSE [exchanges |-> exch, raised |-> "none", value |-> ask.body]

\* the try/except httpx.HTTPError around the requests
CatchHTTPError(r) ==
    IF r.raised # "none" /\ IsHTTPError(r.raised)
    THEN [exchanges |-> r.exchanges, raised |-> "none", value |-> <<Failure>>]
    ELSE r

\* faulty variant: the primary mode is preferred over the thinking mode
query_ask_pesu_app_primary_first(id, quota, ask) ==
    LET q1 == <<Exchange("GET /quota", <<>>, quota)>>
    IN  CatchHTTPError(
          IF quota.kind = "error"
          THEN [exchanges |-> q1, raised |-> "TransportError", value |-> <<>>]
          ELSE IF quota.kind = "notjson"
          THEN [exchanges |-> q1, raised |-> "JSONDecodeError", value |-> <<>>]
          ELSE IF quota.kind = "nokey"
          THEN [exchanges |-> q1, raised |-> "KeyError", value |-> <<>>]
          ELSE IF quota.primary
          THEN AskStep(q1, [query |-> BaseQuery(id), thinking |-> FALSE], ask)
          ELSE IF quota.thinking
          THEN AskStep(q1, [query |-> BaseQuery(id), thinking |-> TRUE], ask)
          ELSE [exchanges |-> q1, raised |-> "none", value |-> <<Failure>>])

\* app/reddit.py: quota first, then at most one ask
query_ask_pesu_app(id, quota, ask) ==
    LET q1 == <<Exchange("GET /quota", <<>>, quota)>>
    IN  CatchHTTPError(
          IF quota.kind = "error"
          THEN [exchanges |-> q1, raised |-> "TransportError", value |-> <<>>]
          ELSE IF quota.kind = "notjson"
          THEN [exchanges |-> q1, raised |-> "JSONDecodeError", value |-> <<>>]
          ELSE IF quota.kind = "nokey"
          THEN [exchanges |-> q1, raised |-> "KeyError", value |-> <<>>]
          ELSE IF quota.thinking
          THEN AskStep(q1, [query |-> BaseQuery(id), thinking |-> TRUE], ask)
          ELSE IF quota.primary
          THEN AskStep(q1, [query |-> BaseQuery(id), thinking |-> FALSE], ask)
          ELSE [exchanges |-> q1, raised |-> "none", value |-> <<Failure>>])

\* src/reddit.py: one ask, the query prefixed with the instruction
query_ask_pesu_src(id, ask) ==
    CatchHTTPError(AskStep(<<>>, [query |-> Prefix \o BaseQuery(id)], ask))

query_ask_pesu(v, id, quota, ask) ==
    IF v = "app" THEN query_ask_pesu_app(id, quota, ask)
    ELSE query_ask_pesu_src(id, ask)

(***************************************************************************)
(* The body of run's loop.                                                 *)
(***************************************************************************)
\* response.get("answer"): a one-element list, or the empty list for None
Get(response, key) == IF key \in DOMAIN response THEN <<response[key]>> ELSE <<>>

\* truth value of response.get("answer")
Truthy(opt) == opt # <<>> /\ opt[1] # ""

\* faulty variant: the fallback sentinel is not filtered out
ReplyWorthy_no_sentinel(response) ==
    response.status /\ Truthy(Get(response, "answer"))

ReplyWorthy(response) ==
    /\ response.status
    /\ Truthy(Get(response, "answer"))
    /\ response.answer # Sentinel

\* faulty variant: the footer is left out
ReplyText_bare(answer) == answer

ReplyText(answer) == answer \o Footer

\* One pass through the try block for one post: the reply call issued (if
\* any) and the exception raised inside the block (if any).
run_iteration(q, reply_raises) ==
    IF q.raised # "none" THEN [reply |-> <<>>, exc |-> q.raised]
    ELSE LET response == q.value[1]
         IN  IF "status" \notin DOMAIN response
             THEN [reply |-> <<>>, exc |-> "KeyError"]
             ELSE IF ReplyWorthy(response)
             THEN [reply |-> <<[text |-> ReplyText(response.answer),
                                ok |-> ~reply_raises]>>,
                   exc |-> IF reply_raises THEN "RedditAPIException" ELSE "none"]
             ELSE [reply |-> <<>>, exc |-> "none"]

(***************************************************************************)
(* State machine.                                                          *)
(***************************************************************************)
NoLast ==
    [post |-> 0,
     q |-> [exchanges |-> <<>>, raised |-> "none", value |-> <<>>],
     reply |-> <<>>,
     exc |-> "none"]

NoOutcome == [how |-> "none", exc |-> "none"]

Running == {s \in Slots : pc[s] # "idle"}

\* State after lifespan() / __main__ has registered the job: add_job(...,
\* "interval", minutes=interval, next_run_time=now), scheduler.start().
Init ==
    /\ variant \in {"app", "src"}
    /\ now = 0
    /\ next_run_time = 0
    /\ missed = 0
    /\ platform = <<>>
    /\ pc = [s \in Slots |-> "idle"]
    /\ cutoff = [s \in Slots |-> 0]
    /\ new_posts = [s \in Slots |-> <<>>]
    /\ queried = [s \in Slots |-> <<>>]
    /\ replied = [s \in Slots |-> <<>>]
    /\ errors = [s \in Slots |-> <<>>]
    /\ last = [s \in Slots |-> NoLast]
    /\ outcome = [s \in Slots |-> NoOutcome]

\* A minute passes.  The scheduler thread wakes up at next_run_time, so the
\* clock does not pass a due run before Fire has handled it.
Tick ==
    /\ now < MaxTime
    /\ now < next_run_time
    /\ now' = now + 1
    /\ UNCHANGED <<variant, next_run_time, missed, platform, pc, cutoff, new_posts,
                   queried, replied, errors, last, outcome>>

\* A user of the subreddit submits a post.
NewPost ==
    /\ Len(platform) < MaxPosts
    /\ platform' = Append(platform, [created_utc |-> now, replies |-> 0])
    /\ UNCHANGED <<variant, now, next_run_time, missed, pc, cutoff, new_posts,
                   queried, replied, errors, last, outcome>>

\* The interval trigger is due: the job is submitted to a worker unless
\* MaxInstances instances of it are running, and the next run time moves on
\* by the interval.
Fire ==
    /\ now >= next_run_time
    /\ next_run_time' = next_run_time + Interval
    /\ IF Cardinality(Running) < MaxInstances /\ Running # Slots
       THEN LET s == CHOOSE t \in Slots \ Running : \A u \in Slots \ Running : t <= u
            IN  /\ pc' = [pc EXCEPT ![s] = "fetch"]
                /\ cutoff' = [cutoff EXCEPT ![s] = 0]
                /\ new_posts' = [new_posts EXCEPT ![s] = <<>>]
                /\ queried' = [queried EXCEPT ![s] = <<>>]
                /\ replied' = [replied EXCEPT ![s] = <<>>]
                /\ errors' = [errors EXCEPT ![s] = <<>>]
                /\ last' = [last EXCEPT ![s] = NoLast]
                /\ outcome' = [outcome EXCEPT ![s] = NoOutcome]
                /\ UNCHANGED missed
       ELSE /\ missed' = missed + 1
            /\ UNCHANGED <<pc, cutoff, new_posts, queried, replied, errors, last,
                           outcome>>
    /\ UNCHANGED <<variant, now, platform>>

\* new_posts = fetch_latest_posts(interval, n); the listing request may fail,
\* and nothing in run catches that.
Fetch(s) ==
    /\ pc[s] = "fetch"
    /\ \E listing_ok \in BOOLEAN :
         IF listing_ok
         THEN LET r == fetch_latest_posts(now, Interval, N)
              IN  /\ new_posts' = [new_posts EXCEPT ![s] = r.posts]
                  /\ cutoff' = [cutoff EXCEPT ![s] = r.cutoff]
                  /\ pc' = [pc EXCEPT ![s] = "loop"]
                  /\ UNCHANGED outcome
         ELSE /\ pc' = [pc EXCEPT ![s] = "idle"]
              /\ outcome' = [outcome EXCEPT
                               ![s] = [how |-> "raised", exc |-> "PrawcoreException"]]
              /\ UNCHANGED <<new_posts, cutoff>>
    /\ UNCHANGED <<variant, now, next_run_time, missed, platform, queried, replied,
                   errors, last>>

\* One iteration of `for post in new_posts`, the backend answering from the
\* given sets of replies.
Iterate(s, quotas, asks) ==
    /\ pc[s] = "loop"
    /\ Len(queried[s]) < Len(new_posts[s])
    /\ \E post \in {new_posts[s][Len(queried[s]) + 1]} :
       \E quota \in QuotaRepliesFor(variant, quotas) :
       \E ask \in AskRepliesFor(variant, quota, asks) :
       \E reply_raises \in BOOLEAN :
       \E q \in {query_ask_pesu(variant, post.id, quota, ask)} :
       \E it \in {run_iteration(q, reply_raises)} :
         /\ reply_raises => it.reply # <<>>
         /\ queried' = [queried EXCEPT ![s] = Append(@, post.id)]
         /\ replied' = [replied EXCEPT
                          ![s] = IF it.reply # <<>> THEN Append(@, post.id) ELSE @]
         /\ platform' =
              IF it.reply # <<>> /\ it.reply[1].ok
              THEN [platform EXCEPT ![post.id].replies = @ + 1]
              ELSE platform
         /\ errors' = [errors EXCEPT
                         ![s] = IF it.exc # "none" THEN Append(@, post.id) ELSE @]
         /\ last' = [last EXCEPT
                       ![s] = [post |-> post.id, q |-> q, reply |-> it.reply,
                               exc |-> it.exc]]
         /\ IF it.exc # "none" /\ ~CaughtByRun(it.exc)
            THEN /\ pc' = [pc EXCEPT ![s] = "idle"]
                 /\ outcome' = [outcome EXCEPT
                                  ![s] = [how |-> "raised", exc |-> it.exc]]
            ELSE UNCHANGED <<pc, outcome>>
    /\ UNCHANGED <<variant, now, next_run_time, missed, cutoff, new_posts>>

\* The loop is exhausted: run returns None.
Return(s) ==
    /\ pc[s] = "loop"
    /\ Len(queried[s]) = Len(new_posts[s])
    /\ pc' = [pc EXCEPT ![s] = "idle"]
    /\ outcome' = [outcome EXCEPT ![s] = [how |-> "returned", exc |-> "none"]]
    /\ UNCHANGED <<variant, now, next_run_time, missed, platform, cutoff, new_posts,
                   queried, replied, errors, last>>

\* The whole system: clock, subreddit users, scheduler and job instances.
Next ==
    \/ Tick
    \/ NewPost
    \/ Fire
    \/ \E s \in Slots : Fetch(s)
    \/ \E s \in Slots : Iterate(s, FewQuotaReplies, FewAskReplies)
    \/ \E s \in Slots : Return(s)

Spec == Init /\ [][Next]_vars

(***************************************************************************)
(* One invocation of run, started by the scheduler at any time on any      *)
(* subreddit, with every behaviour of the backend.                         *)
(***************************************************************************)
\* the subreddits with k posts created up to time t, oldest first
Platforms(t) ==
    UNION {{p \in [1..k -> [created_utc : 0..t, replies : {0}]] :
              \A j \in 1..(k - 1) : p[j].created_utc <= p[j + 1].created_utc} :
           k \in 0..MaxPosts}

InitRun ==
    /\ variant \in {"app", "src"}
    /\ now \in 0..MaxTime
    /\ next_run_time = ((now \div Interval) + 1) * Interval
    /\ missed = 0
    /\ platform \in Platforms(now)
    /\ pc = [s \in Slots |-> IF s = 1 THEN "fetch" ELSE "idle"]
    /\ cutoff = [s \in Slots |-> 0]
    /\ new_posts = [s \in Slots |-> <<>>]
    /\ queried = [s \in Slots |-> <<>>]
    /\ replied = [s \in Slots |-> <<>>]
    /\ errors = [s \in Slots |-> <<>>]
    /\ last = [s \in Slots |-> NoLast]
    /\ outcome = [s \in Slots |-> NoOutcome]

NextRun ==
    \/ \E s \in Slots : Fetch(s)
    \/ \E s \in Slots : Iterate(s, QuotaReplies, AskReplies)
    \/ \E s \in Slots : Return(s)

SpecRun == InitRun /\ [][NextRun]_vars

(***************************************************************************)
(* Vocabulary of the properties.                                           *)
(***************************************************************************)
Ids(posts) == [k \in 1..Len(posts) |-> posts[k].id]

Range(f) == {f[k] : k \in DOMAIN f}

\* slot s has just run one loop iteration
IterStep(s) == Len(queried'[s]) = Len(queried[s]) + 1

\* query_ask_pesu returned r (a response), and r has ...
Returned(q) == q.raised = "none" /\ q.value # <<>>

StatusFalse(r) == "status" \in DOMAIN r /\ r.status = FALSE

StatusTrue(r) == "status" \in DOMAIN r /\ r.status = TRUE

AnswerAbsentOrEmpty(r) == "answer" \notin DOMAIN r \/ r.answer = ""

AnswerIsSentinel(r) ==
    "answer" \in DOMAIN r /\ r.answer = "I'm sorry, I don't have that information."

NotReplyWorthy(q) ==
    /\ Returned(q)
    /\ \/ StatusFalse(q.value[1])
       \/ AnswerAbsentOrEmpty(q.value[1])
       \/ AnswerIsSentinel(q.value[1])

IsReplyWorthy(q) ==
    /\ Returned(q)
    /\ StatusTrue(q.value[1])
    /\ ~AnswerAbsentOrEmpty(q.value[1])
    /\ ~AnswerIsSentinel(q.value[1])

\* a reply call is issued in this step iff it is on the post just processed
OnlyOwnPost(s) ==
    replied'[s] # replied[s] =>
        /\ IterStep(s)
        /\ last'[s].reply # <<>>
        /\ replied'[s] = Append(replied[s], last'[s].post)
        /\ last'[s].post \notin Range(replied[s])

(***************************************************************************)
(* C1.  In one cycle of run, a post whose backend response has status      *)
(* false, or an absent or empty answer, or the fallback sentinel as its    *)
(* answer, gets no reply call: the iteration that processes it issues      *)
(* none, and no other iteration of the cycle replies on it.                *)
(***************************************************************************)
C1_NoReplyWhenNotWorthy ==
    [][\A s \in Slots :
         /\ OnlyOwnPost(s)
         /\ IterStep(s) /\ NotReplyWorthy(last'[s].q) =>
              /\ last'[s].reply = <<>>
              /\ replied'[s] = replied[s]
              /\ platform' = platform]_vars

C1_Witness ==
    \E s \in Slots :
        /\ Len(queried[s]) = 2
        /\ last[s].post = queried[s][2]
        /\ last[s].q.value = <<[status |-> TRUE, answer |-> Sentinel]>>
        /\ replied[s] = <<queried[s][1]>>

(***************************************************************************)
(* C2.  In one cycle of run, a post whose backend response has status true *)
(* and a non-empty answer other than the sentinel gets exactly one reply   *)
(* call, on that post, with the answer followed by the fixed footer.       *)
(***************************************************************************)
C2_OneReplyWithFooter ==
    [][\A s \in Slots :
         /\ OnlyOwnPost(s)
         /\ IterStep(s) /\ IsReplyWorthy(last'[s].q) =>
              LET answer == last'[s].q.value[1].answer
                  text == last'[s].reply[1].text
                  footer == "\n\n---\n*I am a bot, and this action was performed automatically.*"
              IN  /\ Len(last'[s].reply) = 1
                  /\ replied'[s] = Append(replied[s], last'[s].post)
                  /\ last'[s].post = new_posts[s][Len(queried[s]) + 1].id
                  /\ Len(text) = Len(answer) + Len(footer)
                  /\ SubSeq(text, 1, Len(answer)) = answer
                  /\ SubSeq(text, Len(answer) + 1, Len(text)) = footer]_vars

C2_Witness ==
    \E s \in Slots :
        /\ Len(queried[s]) = 2
        /\ replied[s] = queried[s]
        /\ last[s].reply =
             <<[text |-> "I'm sorry, I don't have that information\n\n---\n*I am a bot, and this action was performed automatically.*",
                ok |-> TRUE]>>
        /\ platform[last[s].post].replies = 1

(***************************************************************************)
(* C3.  Per-post failure isolation: when processing a post raises (in the  *)
(* backend query, in reading the response or in the reply call), the loop  *)
(* goes on; it ends only after every post of the fetched list was queried; *)
(* and a later post with a reply-worthy response is still replied to.      *)
(***************************************************************************)
C3_FailureIsolation ==
    [][\A s \in Slots :
         /\ IterStep(s) /\ last'[s].exc # "none" =>
              /\ pc'[s] = "loop"
              /\ errors'[s] = Append(errors[s], last'[s].post)
         /\ pc[s] = "loop" /\ pc'[s] = "idle" => queried'[s] = Ids(new_posts[s])
         /\ IterStep(s) => queried'[s] = SubSeq(Ids(new_posts[s]), 1, Len(queried'[s]))
         /\ IterStep(s) /\ errors[s] # <<>> /\ IsReplyWorthy(last'[s].q) =>
              replied'[s] = Append(replied[s], last'[s].post)]_vars

C3_Witness ==
    \E s \in Slots :
        /\ Len(new_posts[s]) = 2
        /\ queried[s] = Ids(new_posts[s])
        /\ errors[s] = <<queried[s][1]>>
        /\ replied[s] = <<queried[s][2]>>
        /\ outcome[s].how = "returned"

(***************************************************************************)
(* C4 as stated: run never raises to its caller, whichever of the listing, *)
(* the backend query and the reply call fails.                             *)
(***************************************************************************)
C4_NeverRaises == \A s \in Slots : outcome[s].how # "raised"

(***************************************************************************)
(* C4 amended: run raises to its caller only when listing the posts fails, *)
(* before any post is queried; failures of the backend query and of the    *)
(* reply call are contained, and run then returns normally.                *)
(***************************************************************************)
C4_RaisesOnlyOnListingFailure ==
    \A s \in Slots :
        /\ outcome[s].how = "raised" =>
             /\ outcome[s].exc = "PrawcoreException"
             /\ queried[s] = <<>>
             /\ errors[s] = <<>>
        /\ errors[s] # <<>> => pc[s] = "loop" \/ outcome[s].how = "returned"

C4_Witness ==
    \E s \in Slots :
        /\ outcome[s].how = "returned"
        /\ Len(errors[s]) = 2
        /\ last[s].exc = "RedditAPIException"

(***************************************************************************)
(* C5.  Recency filter: fetch_latest_posts computes cutoff = now - interval*)
(* and returns, of the n newest posts, exactly those created at or after   *)
(* the cutoff (a post created exactly at the cutoff is kept); a post       *)
(* created before the cutoff is never queried or replied to in the cycle.  *)
(***************************************************************************)
C5_RecencyFilter ==
    [][\A s \in Slots :
         /\ pc[s] = "fetch" /\ pc'[s] = "loop" =>
              /\ cutoff'[s] = now - Interval
              /\ \A id \in 1..Len(platform) :
                   /\ platform[id].created_utc < now - Interval =>
                        id \notin Range(Ids(new_posts'[s]))
                   /\ platform[id].created_utc >= now - Interval
                        /\ id > Len(platform) - N =>
                        id \in Range(Ids(new_posts'[s]))
         /\ \A id \in Range(queried'[s]) \cup Range(replied'[s]) :
              platform[id].created_utc >= cutoff'[s]]_vars

C5_Witness ==
    \E s \in Slots :
        /\ Len(platform) = 2
        /\ platform[1].created_utc < cutoff[s]
        /\ platform[2].created_utc = cutoff[s]
        /\ queried[s] = <<2>>
        /\ replied[s] = <<2>>
        /\ outcome[s].how = "returned"

(***************************************************************************)
(* C6.  Per-cycle bound: in every cycle the list returned by               *)
(* fetch_latest_posts, the backend queries and the reply calls each number *)
(* at most n, however many posts fall inside the time window.              *)
(***************************************************************************)
C6_AtMostN ==
    \A s \in Slots :
        /\ Len(new_posts[s]) <= N
        /\ Len(queried[s]) <= N
        /\ Len(replied[s]) <= N

C6_Witness ==
    \E s \in Slots :
        /\ Cardinality({id \in 1..Len(platform) :
                          platform[id].created_utc >= cutoff[s]}) > N
        /\ Len(new_posts[s]) = N
        /\ Len(queried[s]) = N
        /\ Len(replied[s]) = N

(***************************************************************************)
(* C7.  No idempotence across cycles: a cycle starts with no memory of the *)
(* earlier ones, fetch_latest_posts keeps a post inside the window whether *)
(* or not the bot has replied to it, and a reply-worthy answer for a post  *)
(* that already carries the bot's reply leads to another reply on it.      *)
(***************************************************************************)
C7_NoIdempotence ==
    [][\A s \in Slots :
         /\ pc[s] = "idle" /\ pc'[s] = "fetch" =>
              new_posts'[s] = <<>> /\ queried'[s] = <<>> /\ replied'[s] = <<>>
         /\ pc[s] = "fetch" /\ pc'[s] = "loop" =>
              \A id \in 1..Len(platform) :
                  /\ platform[id].replies >= 1
                  /\ platform[id].created_utc >= now - Interval
                  /\ id > Len(platform) - N
                  => id \in Range(Ids(new_posts'[s]))
         /\ IterStep(s) /\ IsReplyWorthy(last'[s].q)
              /\ platform[last'[s].post].replies >= 1 =>
              /\ replied'[s] = Append(replied[s], last'[s].post)
              /\ last'[s].reply[1].ok =>
                   platform'[last'[s].post].replies = platform[last'[s].post].replies + 1]_vars

C7_Witness ==
    \E id \in 1..Len(platform) :
        /\ platform[id].replies = 2
        /\ \A s \in Slots : pc[s] = "idle"

(***************************************************************************)
(* C8.  Scheduling: the job's run time starts at process startup and moves *)
(* on by the fixed interval each time it comes due; a cycle starts only at *)
(* a due run time and only while no other cycle is in progress, so at most *)
(* one cycle executes at any time and only that cycle takes steps; a run   *)
(* that comes due while a cycle is in progress is skipped.                 *)
(***************************************************************************)
C8_SerialCycles ==
    /\ next_run_time = 0 /\ now = 0
    /\ [][/\ next_run_time' # next_run_time =>
               now = next_run_time /\ next_run_time' = next_run_time + Interval
          /\ \A s \in Slots :
               /\ pc[s] = "idle" /\ pc'[s] # "idle" =>
                    /\ Running = {}
                    /\ now = next_run_time
                    /\ next_run_time' = next_run_time + Interval
               /\ <<pc[s], cutoff[s], new_posts[s], queried[s], replied[s], errors[s],
                    last[s], outcome[s]>>
                  # <<pc'[s], cutoff'[s], new_posts'[s], queried'[s], replied'[s],
                      errors'[s], last'[s], outcome'[s]>>
                    => Running \subseteq {s} /\ Running' \subseteq {s}
          /\ Cardinality(Running') <= 1]_vars

C8_Witness ==
    /\ missed = 1
    /\ Cardinality(Running) = 1
    /\ \E s \in Running : Len(queried[s]) = 1 /\ cutoff[s] = 0 - Interval

(***************************************************************************)
(* Vocabulary of C9 and C10: the HTTP exchanges of one query.              *)
(***************************************************************************)
TransportFailed(x) == x.reply.kind = "error"

BadStatus(x) == x.reply.kind # "error" /\ x.reply.code \notin 200..299

Malformed(x) == x.reply.kind \in {"notjson", "nokey"}

IsAsk(x) == x.req = "POST /ask"

(***************************************************************************)
(* C9 as stated: for every transport error, every non-2xx response (of the *)
(* ask request and of the quota request) and every malformed response     *)
(* body, query_ask_pesu returns {"status": False} and raises nothing, and  *)
(* run issues no reply on the post.                                        *)
(***************************************************************************)
C9_AllFailuresBecomeFailure ==
    \A s \in Slots :
        (/\ last[s].post # 0
         /\ \E k \in DOMAIN last[s].q.exchanges :
              LET x == last[s].q.exchanges[k]
              IN  TransportFailed(x) \/ BadStatus(x) \/ Malformed(x))
        => /\ last[s].q.raised = "none"
           /\ last[s].q.value = <<[status |-> FALSE]>>
           /\ last[s].reply = <<>>

(***************************************************************************)
(* C9 amended: for every transport error (of the ask request and of the    *)
(* quota request) and every non-2xx response to the ask request,           *)
(* query_ask_pesu returns {"status": False} and raises nothing; a malformed*)
(* body of the quota response (whatever its status) or of a 2xx ask        *)
(* response makes query_ask_pesu raise a non-HTTP exception, which run's   *)
(* per-post handler catches.  In each of these cases run issues no reply   *)
(* on the post and goes on with the loop.                                  *)
(***************************************************************************)
C9_HTTPErrorsBecomeFailure ==
    \A s \in Slots :
        last[s].post # 0 =>
          LET q == last[s].q
              xs == q.exchanges
          IN  /\ (\E k \in DOMAIN xs :
                    TransportFailed(xs[k]) \/ (IsAsk(xs[k]) /\ BadStatus(xs[k])))
                 => /\ q.raised = "none"
                    /\ q.value = <<[status |-> FALSE]>>
                    /\ last[s].reply = <<>>
                    /\ last[s].exc = "none"
                    /\ last[s].post \notin Range(replied[s])
              /\ (\E k \in DOMAIN xs :
                    Malformed(xs[k]) /\ (IsAsk(xs[k]) => ~BadStatus(xs[k])))
                 => /\ q.raised \in {"JSONDecodeError", "KeyError"}
                    /\ q.value = <<>>
                    /\ last[s].reply = <<>>
                    /\ last[s].exc = q.raised
                    /\ last[s].post \in Range(errors[s])
                    /\ last[s].post \notin Range(replied[s])
                    /\ outcome[s].how # "raised"

C9_Witness ==
    \E s \in Slots :
        /\ Len(queried[s]) = 2
        /\ last[s].post = queried[s][2]
        /\ \E k \in DOMAIN last[s].q.exchanges :
             /\ IsAsk(last[s].q.exchanges[k])
             /\ last[s].q.exchanges[k].reply.code = 500
        /\ last[s].q.value = <<[status |-> FALSE]>>
        /\ replied[s] = <<queried[s][1]>>

(***************************************************************************)
(* C10.  Capacity negotiation (app program): the quota request comes       *)
(* first; when the thinking mode is available exactly one ask request is   *)
(* sent, with thinking=true; otherwise when the primary mode is available  *)
(* exactly one ask request is sent, with thinking=false; when neither is   *)
(* available no ask request is sent, the result is {"status": False} and   *)
(* run issues no reply on the post.                                        *)
(***************************************************************************)
C10_CapacityNegotiation ==
    \A s \in Slots :
        variant = "app" /\ last[s].post # 0 =>
          LET xs == last[s].q.exchanges
              asks == SelectSeq(xs, IsAsk)
              quota == xs[1].reply
          IN  /\ Len(xs) >= 1
              /\ xs[1].req = "GET /quota"
              /\ \A k \in 2..Len(xs) : IsAsk(xs[k])
              /\ Len(asks) <= 1
              /\ quota.kind = "json" /\ quota.thinking =>
                   Len(asks) = 1 /\ asks[1].json[1].thinking = TRUE
              /\ quota.kind = "json" /\ ~quota.thinking /\ quota.primary =>
                   Len(asks) = 1 /\ asks[1].json[1].thinking = FALSE
              /\ quota.kind = "json" /\ ~quota.thinking /\ ~quota.primary =>
                   /\ asks = <<>>
                   /\ last[s].q.raised = "none"
                   /\ last[s].q.value = <<[status |-> FALSE]>>
                   /\ last[s].reply = <<>>
                   /\ last[s].post \notin Range(replied[s])

C10_Witness ==
    \E s \in Slots :
        /\ variant = "app"
        /\ Len(last[s].q.exchanges) = 2
        /\ last[s].q.exchanges[1].reply.thinking
        /\ last[s].q.exchanges[1].reply.primary
        /\ last[s].q.exchanges[2].json[1].thinking
        /\ last[s].reply # <<>>

====
